---- MODULE Spec2Model ----
(***************************************************************************)
(* Nedrysoft SettingsDialog (src/src/SettingsDialog.cpp).                  *)
(*                                                                         *)
(* The dialog is built in two ways, selected by Q_OS_MACOS:                *)
(*   "toolbar"  the macOS build: a native toolbar with one item per        *)
(*              section and a cross-fade between the page containers;      *)
(*   "tree"     every other build: a tree list of sections, a tab widget   *)
(*              per section and OK / Cancel / Apply buttons.               *)
(* Both builds are modelled; the variable platform says which one runs.    *)
(*                                                                         *)
(* The handlers fall into two groups that share no variable they write:    *)
(*   Spec         committing and closing: the buttons, closeEvent(),       *)
(*                acceptSettings(), the pages' notifications (both builds);*)
(*   SpecToolbar  switching pages on the toolbar build: the activation of  *)
(*                a toolbar item and the timer ticks of the transition.    *)
(* The first group reads nothing the second writes; the second reads only  *)
(* that the window is open.  Every step of the dialog is a step of one of  *)
(* the two, so each group is checked on its own.                           *)
(*                                                                         *)
(* A supplied page (ISettingsPage) is identified by its position in the    *)
(* list given to the constructor; pages[i] is its section().  A section    *)
(* name is a number in Sections.                                           *)
(***************************************************************************)
EXTENDS Integers, Sequences, FiniteSets, TLC

\* ---- bounds of the model -------------------------------------------------
MaxPages == 3            \* longest list of pages given to the constructor
NumSections == 3         \* number of distinct section names
AnimationSteps == 2      \* timer ticks one transition takes
OpacityUnit == 4         \* the integer that stands for opacity 1.0

Sections == 1..NumSections

\* ---- program constants ---------------------------------------------------
AlphaTransparent == 0
AlphaOpaque == 1

VARIABLES
    platform,          \* "toolbar" (Q_OS_MACOS) or "tree"
    pages,             \* the constructor's argument: pages[i] = section of page i
    canAccept,         \* canAccept[i]: what page i's canAcceptSettings() returns now
    m_pages,           \* the dialog's SettingsPage objects
    treeItems,         \* tree: top-level items of m_treeWidget, each with its tab widget
    toolbarItems,      \* toolbar: items of m_toolbar, in addItem order
    containers,        \* toolbar: containers[k] = widgets of the k-th TransparentWidget
    applyEnabled,      \* tree: m_applyButton is enabled
    categoryLabel,     \* tree: text of m_categoryLabel (0: empty)
    stackedCurrent,    \* tree: section whose tab widget m_stackedWidget shows
    visible,           \* the window is open; a closed dialog handles no more events
    m_currentPage,     \* toolbar: index in m_pages of the current page, 0 for nullptr
    opacity,           \* toolbar: opacity[k] of container k, in 0..OpacityUnit
    winHeight,         \* toolbar: height of the window (the animated "size")
    windowTitle,       \* toolbar: the window title (0: none)
    m_animationGroup,  \* toolbar: the group the member points to, 0 for nullptr
    groups,            \* toolbar: the animation groups in state Running
    lastEvent,         \* the handler that last called acceptSettings() or close()
    retAccept,         \* what acceptSettings() returned in that handler
    closeEvent,        \* what closeEvent() did with the event in that handler
    closedEmits,       \* emissions of closed() in that handler
    callCommits,       \* callCommits[i]: calls of page i's acceptSettings() in that handler
    changedSince,      \* a page has emitted settingsChanged since construction
    changedSinceCommit \* ... since construction or the last acceptSettings() that
                       \* returned true

vars == <<platform, pages, canAccept, m_pages, treeItems, toolbarItems,
          containers, applyEnabled, categoryLabel, stackedCurrent, visible,
          m_currentPage, opacity, winHeight, windowTitle, m_animationGroup, groups,
          lastEvent, retAccept, closeEvent, closedEmits, callCommits, changedSince,
          changedSinceCommit>>

PageIds == 1..Len(pages)

\* ---- construction --------------------------------------------------------

\* index of the first name in seq names that equals sec, 0 if none: the search
\* loops of addPage(), which break at the first match
FirstIndex(names, sec) ==
    IF \E k \in 1..Len(names) : names[k] = sec
    THEN CHOOSE k \in 1..Len(names) :
            names[k] = sec /\ \A j \in 1..(k - 1) : names[j] # sec
    ELSE 0

\* tree build of addPage() that never finds the section's item
TreeAddPage_alwaysNewItem(st, i, sec) ==
    LET tree2 == Append(st.tree, [text |-> sec, tabs |-> <<i>>])
        settingsPage == [m_name |-> sec, m_pageSettings |-> <<i>>, m_widget |-> 0,
                         m_toolbarItem |-> 0]
    IN  [st EXCEPT !.tree = tree2, !.pgs = Append(st.pgs, settingsPage)]

\* tree build of addPage(): st = [tree, pgs]; page i of section sec.
\* Returns the state with the new SettingsPage appended as the constructor does.
TreeAddPage(st, i, sec) ==
    LET found == FirstIndex([k \in 1..Len(st.tree) |-> st.tree[k].text], sec)
        tree1 == IF found = 0
                 THEN Append(st.tree, [text |-> sec, tabs |-> <<>>])
                 ELSE st.tree
        k     == IF found = 0 THEN Len(tree1) ELSE found
        tree2 == [tree1 EXCEPT ![k].tabs = Append(@, i)]
        settingsPage == [m_name |-> sec, m_pageSettings |-> <<i>>, m_widget |-> 0,
                         m_toolbarItem |-> 0]
    IN  [st EXCEPT !.tree = tree2, !.pgs = Append(st.pgs, settingsPage)]

\* toolbar build of addPage(): st = [pgs, items, conts]; page i of section sec.
\* A widget of a container is a page id, or 0 for a SeparatorWidget.
ToolbarAddPage(st, i, sec) ==
    LET found == FirstIndex([k \in 1..Len(st.pgs) |-> st.pgs[k].m_name], sec)
        conts1 == IF found = 0 THEN Append(st.conts, <<>>) ELSE st.conts
        c      == IF found = 0 THEN Len(conts1) ELSE st.pgs[found].m_widget
        conts2 == IF Len(conts1[c]) > 0
                  THEN [conts1 EXCEPT ![c] = Append(@, 0)]
                  ELSE conts1
        conts3 == [conts2 EXCEPT ![c] = Append(@, i)]
    IN  IF found # 0
        THEN [st EXCEPT !.conts = conts3,
                        !.pgs = [st.pgs EXCEPT ![found].m_pageSettings = Append(@, i)]]
        ELSE LET items1 == Append(st.items, sec)
                 settingsPage == [m_name |-> sec, m_pageSettings |-> <<i>>,
                                  m_widget |-> c, m_toolbarItem |-> Len(items1)]
             IN  [st EXCEPT !.conts = conts3, !.items = items1,
                            !.pgs = Append(st.pgs, settingsPage)]

EmptyBuild == [tree |-> <<>>, pgs |-> <<>>, items |-> <<>>, conts |-> <<>>]

\* the constructor's loop over the supplied pages, up to and including page n
RECURSIVE Construct(_, _, _)
Construct(plat, pgs, n) ==
    IF n = 0 THEN EmptyBuild
    ELSE IF plat = "toolbar"
         THEN ToolbarAddPage(Construct(plat, pgs, n - 1), n, pgs[n])
         ELSE TreeAddPage(Construct(plat, pgs, n - 1), n, pgs[n])

\* sizeHint().height() of container c: one unit per widget it holds
SizeHintHeight(conts, c) == Len(conts[c])

\* the largest element of a non-empty set of numbers
Max(S) == CHOOSE x \in S : \A y \in S : y <= x

\* the lists of pages the dialog is built from
PageLists == UNION {[1..n -> Sections] : n \in 1..MaxPages}

\* the sections of list pl are numbered in the order in which they first occur
FirstOccurrenceOrder(pl) ==
    /\ pl[1] = 1
    /\ \A i \in 2..Len(pl) : pl[i] <= 1 + Max({pl[j] : j \in 1..(i - 1)})

NoCalls(S) == [i \in S |-> 0]

Init ==
    /\ platform \in {"toolbar", "tree"}
    /\ pages \in PageLists
    /\ canAccept \in [PageIds -> BOOLEAN]
    /\ LET built == Construct(platform, pages, Len(pages))
       IN  /\ m_pages = built.pgs
           /\ treeItems = built.tree
           /\ toolbarItems = built.items
           /\ containers = built.conts
           /\ IF platform = "toolbar"
              THEN \* m_pages is keyed by the toolbar item's address: first() is
                   \* the page whose item has the lowest address
                   \E first \in 1..Len(built.pgs) :
                      /\ m_currentPage = first
                      /\ opacity = [k \in 1..Len(built.conts) |->
                                     IF k = built.pgs[first].m_widget
                                     THEN OpacityUnit ELSE AlphaTransparent * OpacityUnit]
                      /\ winHeight = SizeHintHeight(built.conts, built.pgs[first].m_widget)
                      /\ windowTitle = built.pgs[first].m_name
              ELSE /\ m_currentPage = 0
                   /\ opacity = <<>>
                   /\ winHeight = 0
                   /\ windowTitle = 0
    /\ applyEnabled = FALSE
    /\ categoryLabel = 0
    /\ stackedCurrent = 0
    /\ visible = TRUE
    /\ m_animationGroup = 0
    /\ groups = {}
    /\ lastEvent = "constructed"
    /\ retAccept = "none"
    /\ closeEvent = "none"
    /\ closedEmits = 0
    /\ callCommits = NoCalls(PageIds)
    /\ changedSince = FALSE
    /\ changedSinceCommit = FALSE

\* ---- the page contract, as the dialog consumes it ------------------------

\* the pages m_pages holds, in iteration order: one entry per call site
\* "page->m_pageSettings" (tree) or "section : page->m_pageSettings" (toolbar)
RECURSIVE HeldPages(_)
HeldPages(pgs) ==
    IF pgs = <<>> THEN <<>>
    ELSE Head(pgs).m_pageSettings \o HeldPages(Tail(pgs))

\* number of times page i occurs in sequence s
RECURSIVE Occurrences(_, _)
Occurrences(s, i) ==
    IF s = <<>> THEN 0
    ELSE (IF Head(s) = i THEN 1 ELSE 0) + Occurrences(Tail(s), i)

\* okToClose() as the toolbar build has it, on every build
okToClose_alwaysTrue(can) == TRUE

\* okToClose() that looks at the first page only
okToClose_firstPage(can) ==
    IF platform = "toolbar" THEN TRUE
    ELSE can[m_pages[1].m_pageSettings[1]]

\* okToClose(): always true on the toolbar build
okToClose(can) ==
    IF platform = "toolbar" THEN TRUE
    ELSE \A k \in 1..Len(m_pages) : can[m_pages[k].m_pageSettings[1]]

\* a validation loop in which the last page that was asked decides
RECURSIVE settingsValid_lastDecides(_, _, _)
settingsValid_lastDecides(can, k, valid) ==
    IF k > Len(m_pages) THEN valid
    ELSE settingsValid_lastDecides(can, k + 1,
             \A j \in 1..Len(m_pages[k].m_pageSettings) :
                 can[m_pages[k].m_pageSettings[j]])

\* the validation loop of acceptSettings(), from entry k with settingsValid = valid.
\* tree: the loop breaks at the first page that cannot accept;
\* toolbar: the break leaves the inner loop only, the outer loop goes on.
RECURSIVE settingsValid(_, _, _)
settingsValid(can, k, valid) ==
    IF k > Len(m_pages) THEN valid
    ELSE IF platform = "toolbar"
         THEN settingsValid(can, k + 1,
                  IF \E j \in 1..Len(m_pages[k].m_pageSettings) :
                         ~can[m_pages[k].m_pageSettings[j]]
                  THEN FALSE ELSE valid)
         ELSE IF ~can[m_pages[k].m_pageSettings[1]]
              THEN FALSE
              ELSE settingsValid(can, k + 1, valid)

\* a commit loop that reaches only the first page of every SettingsPage
commitLoop_firstOfSection ==
    [i \in PageIds |-> Occurrences([k \in 1..Len(m_pages) |->
                                       m_pages[k].m_pageSettings[1]], i)]

\* the commit loop of acceptSettings(): calls made to each page's acceptSettings()
commitLoop == [i \in PageIds |-> Occurrences(HeldPages(m_pages), i)]

\* acceptSettings() that leaves the Apply button as it is after the commit
acceptSettings_keepsApply(can) ==
    IF settingsValid(can, 1, TRUE)
    THEN [ret |-> TRUE, calls |-> commitLoop, apply |-> applyEnabled]
    ELSE [ret |-> FALSE, calls |-> NoCalls(PageIds), apply |-> applyEnabled]

\* acceptSettings() that enables the Apply button where it should disable it
acceptSettings_enablesApply(can) ==
    IF settingsValid(can, 1, TRUE)
    THEN [ret |-> TRUE, calls |-> commitLoop,
          apply |-> IF platform = "toolbar" THEN applyEnabled ELSE TRUE]
    ELSE [ret |-> FALSE, calls |-> NoCalls(PageIds), apply |-> applyEnabled]

\* acceptSettings(): [ret, calls, apply] for the pages' answers can
acceptSettings(can) ==
    IF settingsValid(can, 1, TRUE)
    THEN [ret |-> TRUE, calls |-> commitLoop,
          apply |-> IF platform = "toolbar" THEN applyEnabled ELSE FALSE]
    ELSE [ret |-> FALSE, calls |-> NoCalls(PageIds), apply |-> applyEnabled]

\* what the pages answer to canAcceptSettings() after the commit loop made
\* calls: a page whose acceptSettings() ran may answer anything, the others
\* answer as before
AfterCommit(calls, can2) ==
    \A i \in PageIds : calls[i] = 0 => can2[i] = canAccept[i]

\* closeEvent() that emits closed() whatever okToClose() says
closeEventHandler_alwaysEmits(can) ==
    IF okToClose(can)
    THEN [event |-> "accepted", emits |-> 1, open |-> FALSE]
    ELSE [event |-> "ignored", emits |-> 1, open |-> visible]

\* closeEvent(): [event, emits, open] for the pages' answers can
closeEventHandler(can) ==
    IF okToClose(can)
    THEN [event |-> "accepted", emits |-> 1, open |-> FALSE]
    ELSE [event |-> "ignored", emits |-> 0, open |-> visible]

Bool(b) == IF b THEN "true" ELSE "false"

Structure == <<platform, pages, m_pages, treeItems, toolbarItems, containers>>
History == <<lastEvent, retAccept, closeEvent, closedEmits, callCommits>>
TreeView == <<categoryLabel, stackedCurrent>>
ToolbarView == <<m_currentPage, opacity, winHeight, windowTitle, m_animationGroup, groups>>

\* ---- handlers of the tree build ------------------------------------------

\* m_okButton clicked: acceptSettings(); close();
PressOK ==
    /\ platform = "tree" /\ visible
    /\ LET a == acceptSettings(canAccept)
       IN  /\ retAccept' = Bool(a.ret)
           /\ callCommits' = a.calls
           /\ applyEnabled' = a.apply
           /\ changedSinceCommit' = (changedSinceCommit /\ ~a.ret)
    /\ canAccept' \in [PageIds -> BOOLEAN]
    /\ AfterCommit(callCommits', canAccept')
    /\ LET c == closeEventHandler(canAccept')
       IN  /\ visible' = c.open
           /\ closeEvent' = c.event
           /\ closedEmits' = c.emits
    /\ lastEvent' = "ok"
    /\ UNCHANGED <<Structure, TreeView, ToolbarView, changedSince>>

\* m_applyButton clicked: acceptSettings();
PressApply ==
    /\ platform = "tree" /\ visible
    /\ LET a == acceptSettings(canAccept)
       IN  /\ retAccept' = Bool(a.ret)
           /\ callCommits' = a.calls
           /\ applyEnabled' = a.apply
           /\ changedSinceCommit' = (changedSinceCommit /\ ~a.ret)
    /\ canAccept' \in [PageIds -> BOOLEAN]
    /\ AfterCommit(callCommits', canAccept')
    /\ lastEvent' = "apply"
    /\ closeEvent' = "none"
    /\ closedEmits' = 0
    /\ UNCHANGED <<Structure, TreeView, ToolbarView, visible, changedSince>>

\* a Cancel button wired to the handler of the OK button
PressCancel_commits ==
    /\ platform = "tree" /\ visible
    /\ LET a == acceptSettings(canAccept)
           c == closeEventHandler(canAccept)
       IN  /\ applyEnabled' = a.apply
           /\ visible' = c.open
           /\ lastEvent' = "cancel"
           /\ retAccept' = "none"
           /\ callCommits' = a.calls
           /\ closeEvent' = c.event
           /\ closedEmits' = c.emits
    /\ UNCHANGED <<Structure, TreeView, ToolbarView, canAccept, changedSince,
                   changedSinceCommit>>

\* m_cancelButton clicked: close();
PressCancel ==
    /\ platform = "tree" /\ visible
    /\ LET c == closeEventHandler(canAccept)
       IN  /\ visible' = c.open
           /\ lastEvent' = "cancel"
           /\ retAccept' = "none"
           /\ callCommits' = NoCalls(PageIds)
           /\ closeEvent' = c.event
           /\ closedEmits' = c.emits
    /\ UNCHANGED <<Structure, TreeView, ToolbarView, canAccept, applyEnabled,
                   changedSince, changedSinceCommit>>

\* page i emits settingsChanged: m_applyButton->setDisabled(false)
SettingsChanged(i) ==
    /\ platform = "tree" /\ visible
    /\ applyEnabled' = TRUE
    /\ changedSince' = TRUE
    /\ changedSinceCommit' = TRUE
    /\ UNCHANGED <<Structure, History, TreeView, ToolbarView, canAccept, visible>>

\* m_treeWidget currentItemChanged to item k: show its tab widget and its name
TreeCurrentItemChanged(k) ==
    /\ platform = "tree" /\ visible
    /\ stackedCurrent' = treeItems[k].text
    /\ categoryLabel' = treeItems[k].text
    /\ UNCHANGED <<Structure, History, ToolbarView, canAccept, applyEnabled, visible,
                   changedSince, changedSinceCommit>>

\* ---- handlers of both builds ---------------------------------------------

\* the window is asked to close by the window system: closeEvent()
WindowClose ==
    /\ visible
    /\ LET c == closeEventHandler(canAccept)
       IN  /\ visible' = c.open
           /\ lastEvent' = "windowClose"
           /\ retAccept' = "none"
           /\ callCommits' = NoCalls(PageIds)
           /\ closeEvent' = c.event
           /\ closedEmits' = c.emits
    /\ UNCHANGED <<Structure, TreeView, ToolbarView, canAccept, applyEnabled,
                   changedSince, changedSinceCommit>>

\* the host calls acceptSettings() (the toolbar build has no button for it)
CallAcceptSettings ==
    /\ platform = "toolbar" /\ visible
    /\ LET a == acceptSettings(canAccept)
       IN  /\ retAccept' = Bool(a.ret)
           /\ callCommits' = a.calls
           /\ applyEnabled' = a.apply
           /\ changedSinceCommit' = (changedSinceCommit /\ ~a.ret)
    /\ canAccept' \in [PageIds -> BOOLEAN]
    /\ AfterCommit(callCommits', canAccept')
    /\ lastEvent' = "acceptSettings"
    /\ closeEvent' = "none"
    /\ closedEmits' = 0
    /\ UNCHANGED <<Structure, TreeView, ToolbarView, visible, changedSince>>

\* the user edits page i: its canAcceptSettings() answer flips
PageEdited(i) ==
    /\ visible
    /\ canAccept' = [canAccept EXCEPT ![i] = ~@]
    /\ UNCHANGED <<Structure, History, TreeView, ToolbarView, applyEnabled, visible,
                   changedSince, changedSinceCommit>>

\* ---- handlers of the toolbar build ---------------------------------------

\* value of an animated property after t of AnimationSteps ticks, from a to b
Interpolated(a, b, t) ==
    IF b >= a THEN a + ((b - a) * t) \div AnimationSteps
    ELSE a - ((a - b) * t) \div AnimationSteps

\* resizeEvent() gives every container the size of the window
WidgetHeight(c) == winHeight

\* a stop() that leaves the group running
Stopped_stillRunning(gs, id) == gs

\* m_animationGroup->stop(): the group leaves state Running (no finished())
Stopped(gs, id) == {g \in gs : g.id # id}

\* a comparison of the two containers that never finds them equal
SameItem_never(currentItem, nextItem) == FALSE

\* if (currentItem==nextItem)
SameItem(currentItem, nextItem) == currentItem = nextItem

\* new QParallelAnimationGroup: an id no running group has
NewGroupId(gs) == CHOOSE id \in 1..(Cardinality(gs) + 1) : \A g \in gs : g.id # id

\* the animations the activation handler puts in the new group, for the
\* switch from container currentItem to the container of page settingsPage
NewGroup(id, settingsPage, currentItem, nextItem) ==
    [id |-> id, page |-> settingsPage, t |-> 0,
     outgoing |-> currentItem, incoming |-> nextItem,
     sizeStart |-> WidgetHeight(currentItem),
     sizeEnd |-> SizeHintHeight(containers, nextItem),
     outStart |-> opacity[currentItem], outEnd |-> AlphaTransparent * OpacityUnit,
     inStart |-> opacity[nextItem], inEnd |-> AlphaOpaque * OpacityUnit]

\* toolbar item of m_pages[p] activated
ToolbarItemActivated(p) ==
    /\ platform = "toolbar" /\ visible
    /\ p \in 1..Len(m_pages)
    /\ IF m_currentPage = 0
       THEN /\ m_currentPage' = p
            /\ opacity' = [opacity EXCEPT ![m_pages[p].m_widget] = OpacityUnit]
            /\ winHeight' = SizeHintHeight(containers, m_pages[p].m_widget)
            /\ windowTitle' = m_pages[p].m_name
            /\ UNCHANGED <<m_animationGroup, groups>>
       ELSE LET currentItem == m_pages[m_currentPage].m_widget
                nextItem == m_pages[p].m_widget
            IN  IF SameItem(currentItem, nextItem)
                THEN UNCHANGED ToolbarView
                ELSE LET running == IF m_animationGroup # 0
                                    THEN Stopped(groups, m_animationGroup)
                                    ELSE groups
                         id == NewGroupId(running)
                     IN  /\ groups' = running \cup
                                        {NewGroup(id, p, currentItem, nextItem)}
                         /\ m_animationGroup' = id
                         /\ m_currentPage' = p
                         /\ UNCHANGED <<opacity, winHeight, windowTitle>>
    /\ UNCHANGED <<Structure, History, TreeView, canAccept, applyEnabled, visible,
                   changedSince, changedSinceCommit>>

\* the animated properties at tick t of group g
Animated(g, t) ==
    /\ opacity' = [opacity EXCEPT
                     ![g.outgoing] = Interpolated(g.outStart, g.outEnd, t),
                     ![g.incoming] = Interpolated(g.inStart, g.inEnd, t)]
    /\ winHeight' = Interpolated(g.sizeStart, g.sizeEnd, t)

\* a timer tick of running group g that does not reach the end of the transition
AnimationAdvance(g) ==
    /\ g \in groups
    /\ g.t + 1 < AnimationSteps
    /\ Animated(g, g.t + 1)
    /\ groups' = (groups \ {g}) \cup {[g EXCEPT !.t = g.t + 1]}
    /\ UNCHANGED <<Structure, History, TreeView, canAccept, applyEnabled, visible,
                   changedSince, changedSinceCommit, m_currentPage, windowTitle,
                   m_animationGroup>>

\* a finished() lambda that resets the member and leaves the title alone
AnimationFinished_keepsTitle(g) ==
    /\ g \in groups
    /\ g.t + 1 = AnimationSteps
    /\ Animated(g, AnimationSteps)
    /\ groups' = groups \ {g}
    /\ m_animationGroup' = 0
    /\ UNCHANGED <<Structure, History, TreeView, canAccept, applyEnabled, visible,
                   changedSince, changedSinceCommit, m_currentPage, windowTitle>>

\* the timer tick that ends the transition of group g: the properties take
\* their end values, the group stops and emits finished()
AnimationFinished(g) ==
    /\ g \in groups
    /\ g.t + 1 = AnimationSteps
    /\ Animated(g, AnimationSteps)
    /\ groups' = groups \ {g}
    /\ m_animationGroup' = 0
    /\ windowTitle' = m_pages[g.page].m_name
    /\ UNCHANGED <<Structure, History, TreeView, canAccept, applyEnabled, visible,
                   changedSince, changedSinceCommit, m_currentPage>>

\* ---- properties ----------------------------------------------------------

\* a step of a handler that calls acceptSettings(), resp. close()
AcceptStep ==
    /\ lastEvent' \in {"ok", "apply", "acceptSettings"}
    /\ PressOK \/ PressApply \/ CallAcceptSettings
CloseStep ==
    /\ lastEvent' \in {"ok", "cancel", "windowClose"}
    /\ PressOK \/ PressCancel \/ WindowClose
SomePageInvalid(can) == \E i \in PageIds : ~can[i]
EveryPageValid(can) == \A i \in PageIds : can[i]
NothingCommitted(calls) == \A i \in PageIds : calls[i] = 0
EveryPageCommittedOnce(calls) == \A i \in PageIds : calls[i] = 1

\* C1: whenever acceptSettings() runs (OK, Apply or a direct call) while at
\* least one page's canAcceptSettings() is false, it returns false and calls
\* acceptSettings() on no page, not even on the pages that can accept.
C1_CommitRejected ==
    [][(AcceptStep /\ SomePageInvalid(canAccept))
          => (retAccept' = "false" /\ NothingCommitted(callCommits'))]_vars

\* a rejected commit with a page that could have accepted next to one that could not
C1_Witness ==
    /\ lastEvent \in {"apply", "acceptSettings"}
    /\ retAccept = "false"
    /\ NothingCommitted(callCommits)
    /\ \E i, j \in PageIds : canAccept[i] /\ ~canAccept[j]

\* what a close request does while the pages answer can at the gate
CloseBlocked ==
    /\ closeEvent' = "ignored"
    /\ closedEmits' = 0
    /\ visible'

\* C2 as stated: on either layout, while a page's canAcceptSettings() is false
\* okToClose() is false and every close request (window close, OK, Cancel) is
\* ignored, leaves the dialog open and emits no closed().
C2_Original ==
    /\ [](SomePageInvalid(canAccept) => ~okToClose(canAccept))
    /\ [][(CloseStep /\ SomePageInvalid(canAccept')) => CloseBlocked]_vars

\* C2 (amended): on the tree/tab layout, while a page's canAcceptSettings() is
\* false okToClose() is false and every close request (window close, OK,
\* Cancel) is ignored, leaves the dialog open and emits no closed().
C2_CloseBlockedOnTree ==
    /\ []((platform = "tree" /\ SomePageInvalid(canAccept)) => ~okToClose(canAccept))
    /\ [][(platform = "tree" /\ CloseStep /\ SomePageInvalid(canAccept'))
             => CloseBlocked]_vars

\* a window close that was ignored because a page other than the first is invalid
C2_Witness ==
    /\ platform = "tree"
    /\ lastEvent = "windowClose"
    /\ closeEvent = "ignored"
    /\ closedEmits = 0
    /\ visible
    /\ canAccept[1]
    /\ SomePageInvalid(canAccept)

\* C3: on the tree/tab layout the Apply button is disabled after construction
\* and as long as no page has emitted settingsChanged, whatever else happened;
\* a settingsChanged from any page enables it.
C3_ApplyDisabledUntilChange ==
    /\ []((platform = "tree" /\ ~changedSince) => ~applyEnabled)
    /\ [][(\E i \in PageIds : SettingsChanged(i)) => applyEnabled']_vars

\* settings were committed and a section was selected, no page reported a
\* change, and Apply is still disabled
C3_Witness ==
    /\ platform = "tree"
    /\ ~changedSince
    /\ ~applyEnabled
    /\ lastEvent = "apply"
    /\ retAccept = "true"
    /\ categoryLabel # 0

\* what closeEvent() does for the pages' answers can: it accepts and emits
\* closed() once exactly when okToClose(), and emits nothing when it ignores
CloseGate(can) ==
    /\ (closeEvent' = "accepted" /\ closedEmits' = 1 /\ ~visible') <=> okToClose(can)
    /\ closeEvent' \in {"accepted", "ignored"}
    /\ closeEvent' = "ignored" => (closedEmits' = 0 /\ visible')

\* C4 as stated: closeEvent() accepts and emits closed() once iff okToClose(),
\* and on either layout okToClose() is true iff every page can accept.
C4_Original ==
    /\ [](okToClose(canAccept) <=> EveryPageValid(canAccept))
    /\ [][CloseStep => CloseGate(canAccept')]_vars

\* C4 (amended): closeEvent() accepts the event and emits closed() exactly once
\* iff okToClose() returns true, and never emits closed() for an ignored event;
\* on the tree/tab layout okToClose() is true iff every supplied page's
\* canAcceptSettings() is true.
C4_CloseGate ==
    /\ [](platform = "tree" => (okToClose(canAccept) <=> EveryPageValid(canAccept)))
    /\ [][CloseStep => CloseGate(canAccept')]_vars

\* a close request that was accepted with several valid pages
C4_Witness ==
    /\ platform = "tree"
    /\ Len(pages) > 1
    /\ closeEvent = "accepted"
    /\ closedEmits = 1
    /\ ~visible
    /\ EveryPageValid(canAccept)

\* the page ids of section sec, in the order the pages were supplied
PagesOfSection(sec) ==
    SelectSeq([i \in PageIds |-> i], LAMBDA i : pages[i] = sec)

\* position of the first page of section sec in the supplied list
FirstPageOf(sec) == CHOOSE i \in PageIds : pages[i] = sec /\ \A j \in 1..(i - 1) : pages[j] # sec

\* the pages in container c of the toolbar build, separators left out
PageWidgets(c) == SelectSeq(containers[c], LAMBDA w : w # 0)

\* names: the names of the top-level entries; held[k]: the pages in the
\* container of entry k
Grouped(names, held) ==
    /\ Len(names) = Cardinality({pages[i] : i \in PageIds})
    /\ \A k \in 1..Len(names) : names[k] \in {pages[i] : i \in PageIds}
    /\ \A k, l \in 1..Len(names) :
          k < l => FirstPageOf(names[k]) < FirstPageOf(names[l])
    /\ Len(held) = Len(names)
    /\ \A k \in 1..Len(names) : held[k] = PagesOfSection(names[k])

\* C5: after construction there is exactly one top-level entry (tree item or
\* toolbar item) per distinct section, the entries are in the order of the
\* first page of each section, and the container of every entry holds exactly
\* the pages of its section, in the order they were supplied.
C5_GroupedBySection ==
    IF platform = "tree"
    THEN Grouped([k \in 1..Len(treeItems) |-> treeItems[k].text],
                 [k \in 1..Len(treeItems) |-> treeItems[k].tabs])
    ELSE /\ Grouped(toolbarItems, [k \in 1..Len(containers) |-> PageWidgets(k)])
         /\ \A k \in 1..Len(m_pages) :
               /\ toolbarItems[m_pages[k].m_toolbarItem] = m_pages[k].m_name
               /\ m_pages[k].m_widget = m_pages[k].m_toolbarItem

\* a tree in which the first and the third page share the first entry
C5_Witness ==
    /\ platform = "tree"
    /\ Len(pages) = 3 /\ pages[1] = pages[3] /\ pages[2] # pages[1]
    /\ Len(treeItems) = 2
    /\ treeItems[1].tabs = <<1, 3>>
    /\ treeItems[2].tabs = <<2>>

\* C6: when every page can accept, acceptSettings() calls acceptSettings()
\* exactly once on every supplied page and returns true; in every call either
\* every page is committed or none is.
C6_AllOrNothing ==
    [][AcceptStep =>
          /\ EveryPageValid(canAccept) =>
                (retAccept' = "true" /\ EveryPageCommittedOnce(callCommits'))
          /\ EveryPageCommittedOnce(callCommits') \/ NothingCommitted(callCommits')]_vars

\* a commit of two pages that share a section on the toolbar layout
C6_Witness ==
    /\ platform = "toolbar"
    /\ lastEvent = "acceptSettings"
    /\ retAccept = "true"
    /\ Len(pages) >= 2 /\ pages[1] = pages[2]
    /\ EveryPageCommittedOnce(callCommits)

\* C7: a press of OK emits closed() only if its acceptSettings() returned true
\* and committed every page; when some page cannot accept, the press commits
\* nothing, the dialog stays open and closed() is not emitted.
C7_OkClosesOnlyIfCommitted ==
    [][PressOK =>
          /\ closedEmits' > 0 =>
                (retAccept' = "true" /\ EveryPageCommittedOnce(callCommits'))
          /\ SomePageInvalid(canAccept) =>
                (NothingCommitted(callCommits') /\ visible' /\ closedEmits' = 0)]_vars

\* a press of OK that neither committed nor closed
C7_Witness ==
    /\ lastEvent = "ok"
    /\ retAccept = "false"
    /\ closeEvent = "ignored"
    /\ closedEmits = 0
    /\ visible

\* C8: a press of Cancel calls acceptSettings() on no page, leaves the Apply
\* button as it was and requests a close that goes through the okToClose() gate.
C8_CancelDiscards ==
    [][PressCancel =>
          /\ NothingCommitted(callCommits')
          /\ retAccept' = "none"
          /\ applyEnabled' = applyEnabled
          /\ CloseGate(canAccept)]_vars

\* a Cancel that closed the dialog with a change pending
C8_Witness ==
    /\ lastEvent = "cancel"
    /\ applyEnabled
    /\ closeEvent = "accepted"
    /\ ~visible

\* C9: when the activation handler of a toolbar item returns, m_currentPage is
\* the item's page; activating the item of the current page changes nothing.
C9_ActivationSetsCurrentPage ==
    [][\A p \in 1..Len(m_pages) :
          ToolbarItemActivated(p) =>
             /\ m_currentPage' = p
             /\ p = m_currentPage => UNCHANGED ToolbarView]_vars

\* the current page is the page of a transition that has only just started,
\* and the title still names another page
C9_Witness ==
    /\ \E g \in groups : g.t = 0 /\ g.page = m_currentPage /\ g.id = m_animationGroup
    /\ windowTitle # m_pages[m_currentPage].m_name

\* the group that the activation of page p starts
StartsFromCurrentValues(p) ==
    \E g \in groups' :
       /\ groups' = {g}
       /\ g.id = m_animationGroup'
       /\ g.t = 0
       /\ g.outgoing = m_pages[m_currentPage].m_widget
       /\ g.incoming = m_pages[p].m_widget
       /\ g.outStart = opacity[g.outgoing]
       /\ g.inStart = opacity[g.incoming]
       /\ g.sizeStart = WidgetHeight(g.outgoing)
       /\ g.sizeStart = WidgetHeight(g.incoming)

\* C10: at most one animation group is running; m_animationGroup is non-null
\* exactly while a group is running and then points to it; activating another
\* page stops the running group and starts one group, from the current size
\* and opacity of the two containers; a finished transition resets the member.
C10_OneRunningGroup ==
    /\ [](/\ Cardinality(groups) <= 1
          /\ m_animationGroup # 0 <=> groups # {}
          /\ \A g \in groups : g.id = m_animationGroup)
    /\ [][\A p \in 1..Len(m_pages) :
             (ToolbarItemActivated(p) /\ p # m_currentPage)
                => StartsFromCurrentValues(p)]_vars
    /\ [][(\E g \in groups : AnimationFinished(g)) => m_animationGroup' = 0]_vars

\* a transition that was started while another one was half way
C10_Witness ==
    \E g \in groups :
       /\ g.t = 0
       /\ g.outStart \notin {AlphaTransparent * OpacityUnit, AlphaOpaque * OpacityUnit}
       /\ m_animationGroup = g.id

\* C11: on the tree/tab layout the Apply button is enabled exactly when a page
\* has emitted settingsChanged since construction or since the last
\* acceptSettings() that returned true; a commit that succeeds disables the
\* button and a commit that is rejected leaves it as it was.
C11_ApplyTracksChanges ==
    /\ [](platform = "tree" => (applyEnabled <=> changedSinceCommit))
    /\ [][(platform = "tree" /\ AcceptStep) =>
             /\ retAccept' = "true" => ~applyEnabled'
             /\ retAccept' = "false" => applyEnabled' = applyEnabled]_vars

\* Apply was enabled by a change and is disabled again after a successful Apply
C11_Witness ==
    /\ platform = "tree"
    /\ changedSince
    /\ ~changedSinceCommit
    /\ ~applyEnabled
    /\ lastEvent = "apply"
    /\ retAccept = "true"

\* no page-switch animation is running
Idle == groups = {}

\* C12: on the toolbar layout, whenever no page-switch animation is running the
\* container of the current page is fully opaque and every other container is
\* fully transparent.
C12_OnlyCurrentPageOpaque ==
    (platform = "toolbar" /\ Idle) =>
        \A c \in 1..Len(containers) :
            opacity[c] = IF c = m_pages[m_currentPage].m_widget
                         THEN AlphaOpaque * OpacityUnit
                         ELSE AlphaTransparent * OpacityUnit

\* the window title is the name of the current page
TitleNamesCurrentPage == windowTitle = m_pages[m_currentPage].m_name

\* a transition has just been started, resp. is past its first tick
JustStarted == \E g \in groups : g.t = 0
Progressed == \E g \in groups : g.t > 0

\* C13: on the toolbar layout, whenever no transition is running the window
\* title is the name of m_currentPage; only the group the member points to
\* finishes, and it sets the title to the name of the current page, so a
\* stopped transition never sets the title; and a started transition finishes
\* unless a later activation replaces it.
C13_TitleNamesCurrentPage ==
    /\ []((platform = "toolbar" /\ Idle) => TitleNamesCurrentPage)
    /\ [][\A g \in groups :
             AnimationFinished(g) =>
                /\ g.id = m_animationGroup
                /\ g.page = m_currentPage
                /\ windowTitle' = m_pages[m_currentPage'].m_name]_vars
    /\ JustStarted ~> (Progressed \/ Idle)
    /\ Progressed ~> ((Idle /\ TitleNamesCurrentPage) \/ JustStarted)

\* a transition that replaced another one has finished and set the title to a
\* page that is neither the first current page nor the replaced target
C13_Witness ==
    /\ platform = "toolbar"
    /\ Idle
    /\ Len(m_pages) >= 3
    /\ m_currentPage = 3
    /\ windowTitle = m_pages[3].m_name
    /\ opacity[m_pages[1].m_widget] # AlphaTransparent * OpacityUnit
    /\ opacity[m_pages[2].m_widget] = AlphaTransparent * OpacityUnit

\* ---- specifications ------------------------------------------------------

\* committing and closing, on both builds
Next ==
    \/ PressOK
    \/ PressApply
    \/ PressCancel
    \/ \E i \in PageIds : SettingsChanged(i)
    \/ \E k \in 1..Len(treeItems) : TreeCurrentItemChanged(k)
    \/ WindowClose
    \/ CallAcceptSettings
    \/ \E i \in PageIds : PageEdited(i)

Spec == Init /\ [][Next]_vars

\* switching pages on the toolbar build.  The pages' answers play no part.
\* Section names are only ever compared for equality (addPage) and the
\* handlers use the names for the title alone, so one list of pages stands
\* for all its renamings.
InitToolbar ==
    /\ Init
    /\ platform = "toolbar"
    /\ FirstOccurrenceOrder(pages)
    /\ \A i \in PageIds : canAccept[i]

NextToolbar ==
    \/ \E p \in 1..Len(m_pages) : ToolbarItemActivated(p)
    \/ \E g \in groups : AnimationAdvance(g)
    \/ \E g \in groups : AnimationFinished(g)

SpecToolbar == InitToolbar /\ [][NextToolbar]_vars

\* the same with the timer of a running transition firing until it ends
SpecToolbarFair ==
    /\ SpecToolbar
    /\ WF_vars(\E g \in groups : AnimationAdvance(g))
    /\ WF_vars(\E g \in groups : AnimationFinished(g))
====
